---- MODULE Spec2Model ----
(***************************************************************************)
(* Model of compute_recommendations (streamlit_app.py, lines 13-65): the   *)
(* replenishment engine that filters the sales and forecast tables,        *)
(* applies the promo lift, takes the latest inventory per (sku, location), *)
(* averages the adjusted forecast and derives an order quantity per key.   *)
(*                                                                         *)
(* A table is [columns, rows]; a row is a record whose fields are the      *)
(* table's columns.  Floating-point values are kept as exact rationals:    *)
(* promo_lift is a number of quarters (promo_lift = 2 is the lift 0.5),    *)
(* mean_daily is [num, den], mean_daily_fcst is a number of hundredths.    *)
(* With quarter lifts and integer forecast units every product the code    *)
(* rounds is exactly representable in binary floating point.               *)
(***************************************************************************)
EXTENDS Integers, Sequences, FiniteSets

VARIABLES sales_df, forecast_df, promo_lift, safety_days, max_order,
          sku_filter, store_filter, pc, adj, reco, raised_line

vars == <<sales_df, forecast_df, promo_lift, safety_days, max_order,
          sku_filter, store_filter, pc, adj, reco, raised_line>>

inputs == <<sales_df, forecast_df, promo_lift, safety_days, max_order,
            sku_filter, store_filter>>

(* ------------------------------ bounds -------------------------------- *)
\* rows of the sales table when several pairs and dates are mixed
MaxSalesRows == 3
\* rows of every other input table
MaxRows == 2

(* ------------------------- program constants -------------------------- *)
PlanningWindow == 14

SalesColumns == {"sku", "location", "date", "inv_bop"}
ForecastColumns == {"sku", "location", "date", "forecast_units"}

(* ----------------------------- arithmetic ----------------------------- *)
Max(a, b) == IF a >= b THEN a ELSE b
Min(a, b) == IF a <= b THEN a ELSE b

\* numpy/Python round of the rational n/d (d > 0): nearest integer, ties to even
RoundHalfEven(n, d) ==
    LET q == n \div d
        r == n % d
    IN  IF 2 * r < d THEN q
        ELSE IF 2 * r > d THEN q + 1
        ELSE IF q % 2 = 0 THEN q ELSE q + 1

\* Python int() of the rational n/d (d > 0): truncation toward zero
IntTrunc(n, d) == IF n >= 0 THEN n \div d ELSE -((-n) \div d)

(* ------------------------------ tables -------------------------------- *)
\* lexicographic order of the key strings the model uses
StrOrder == <<"A", "B", "S1", "S2">>
Ord(s) == CHOOSE i \in 1..Len(StrOrder) : StrOrder[i] = s

Key(r) == <<r.sku, r.location>>
KeyLess(k1, k2) ==
    \/ Ord(k1[1]) < Ord(k2[1])
    \/ k1[1] = k2[1] /\ Ord(k1[2]) < Ord(k2[2])

\* the subsequence of s at the positions in idx, in order
Pick(s, idx) ==
    LET F[i \in 0..Len(s)] ==
            IF i = 0 THEN <<>>
            ELSE IF i \in idx THEN Append(F[i - 1], s[i]) ELSE F[i - 1]
    IN  F[Len(s)]

\* df[df[col].isin(values)]
IsIn(df, col, values) ==
    [df EXCEPT !.rows = Pick(df.rows, {i \in 1..Len(df.rows) : df.rows[i][col] \in values})]

\* ApplyFilters with the store filter left out
ApplyFiltersSkuOnly(df, skus, stores) ==
    IF skus # {} THEN IsIn(df, "sku", skus) ELSE df

\* lines 23-28 applied to one table: each filter is used only when truthy
ApplyFilters(df, skus, stores) ==
    LET bySku == IF skus # {} THEN IsIn(df, "sku", skus) ELSE df
    IN  IF stores # {} THEN IsIn(bySku, "location", stores) ELSE bySku

\* the line of the first column access that raises KeyError, 0 when none does
FirstKeyError(sales, fore, skus, stores) ==
    IF skus # {} /\ "sku" \notin sales.columns THEN 24
    ELSE IF skus # {} /\ "sku" \notin fore.columns THEN 25
    ELSE IF stores # {} /\ "location" \notin sales.columns THEN 27
    ELSE IF stores # {} /\ "location" \notin fore.columns THEN 28
    ELSE IF "forecast_units" \notin fore.columns THEN 32
    ELSE IF "date" \notin sales.columns THEN 36
    ELSE IF ~({"sku", "location"} \subseteq sales.columns) THEN 37
    ELSE IF "inv_bop" \notin sales.columns THEN 38
    ELSE IF ~({"sku", "location"} \subseteq fore.columns) THEN 43
    ELSE 0

\* AdjustUnits with negative results floored at zero
AdjustUnitsClamped(units, lift) == Max(0, RoundHalfEven(units * (4 + lift), 4))

\* adj["forecast_units"] = (adj["forecast_units"] * (1 + promo_lift)).round().astype(int)
AdjustUnits(units, lift) == RoundHalfEven(units * (4 + lift), 4)

AdjustForecast(rows, lift) ==
    [i \in 1..Len(rows) |->
        [rows[i] EXCEPT !.forecast_units = AdjustUnits(rows[i].forecast_units, lift)]]

\* sales_df.sort_values("date"): the default kind is quicksort, which is not
\* stable, so every date-sorted arrangement of the rows is a possible result
SortValuesDate(rows) ==
    LET n == Len(rows)
        perms == {p \in [1..n -> 1..n] : \A i, j \in 1..n : i # j => p[i] # p[j]}
    IN  {[i \in 1..n |-> rows[p[i]]] :
            p \in {q \in perms : \A i \in 1..n : \A j \in 1..n :
                        i < j => rows[q[i]].date <= rows[q[j]].date}}

\* GroupTail taking the first row of each group, as head(1) would
GroupHead(sorted) ==
    LET first == {i \in 1..Len(sorted) :
                     \A j \in 1..(i - 1) : Key(sorted[j]) # Key(sorted[i])}
        kept == Pick(sorted, first)
    IN  [i \in 1..Len(kept) |->
            [sku |-> kept[i].sku, location |-> kept[i].location, inv_bop |-> kept[i].inv_bop]]

\* .groupby(["sku","location"]).tail(1)[["sku","location","inv_bop"]]
GroupTail(sorted) ==
    LET last == {i \in 1..Len(sorted) :
                    \A j \in (i + 1)..Len(sorted) : Key(sorted[j]) # Key(sorted[i])}
        kept == Pick(sorted, last)
    IN  [i \in 1..Len(kept) |->
            [sku |-> kept[i].sku, location |-> kept[i].location, inv_bop |-> kept[i].inv_bop]]

SumUnits(rows) ==
    LET F[i \in 0..Len(rows)] ==
            IF i = 0 THEN 0 ELSE F[i - 1] + rows[i].forecast_units
    IN  F[Len(rows)]

\* adj.groupby(["sku","location"])["forecast_units"].mean() for one key, then the
\* left merge and fillna(0): a key without forecast rows gets mean_daily 0
MeanDaily(adjRows, k) ==
    LET grp == Pick(adjRows, {i \in 1..Len(adjRows) : Key(adjRows[i]) = k})
    IN  IF Len(grp) = 0 THEN [num |-> 0, den |-> 1]
        ELSE [num |-> SumUnits(grp), den |-> Len(grp)]

\* MergeLeft as an inner join: keys without forecast rows are dropped
MergeInner(latest, adjRows) ==
    LET both == Pick(latest, {i \in 1..Len(latest) :
                        \E j \in 1..Len(adjRows) : Key(adjRows[j]) = Key(latest[i])})
    IN  [i \in 1..Len(both) |->
            [sku |-> both[i].sku, location |-> both[i].location,
             inv_bop |-> both[i].inv_bop,
             mean_daily |-> MeanDaily(adjRows, Key(both[i]))]]

\* merge(..., how="left").fillna(0), line 47
MergeLeft(latest, adjRows) ==
    [i \in 1..Len(latest) |->
        [sku |-> latest[i].sku, location |-> latest[i].location,
         inv_bop |-> latest[i].inv_bop,
         mean_daily |-> MeanDaily(adjRows, Key(latest[i]))]]

\* OrderQty with the quantity rounded up instead of truncated by int()
OrderQtyCeil(mean_daily, inv_bop, sdays, cap) ==
    LET raw == mean_daily.num * PlanningWindow + mean_daily.num * sdays
                 - inv_bop * mean_daily.den
        order_qty == Max(0, -((-raw) \div mean_daily.den))
    IN  IF cap # 0 /\ cap > 0 THEN Min(order_qty, cap) ELSE order_qty

\* OrderQty without the clamp at zero
OrderQtyNoClamp(mean_daily, inv_bop, sdays, cap) ==
    LET order_qty == IntTrunc(mean_daily.num * PlanningWindow + mean_daily.num * sdays
                                - inv_bop * mean_daily.den, mean_daily.den)
    IN  IF cap # 0 /\ cap > 0 THEN Min(order_qty, cap) ELSE order_qty

\* OrderQty with the cap never applied
OrderQtyNoCap(mean_daily, inv_bop, sdays, cap) ==
    Max(0, IntTrunc(mean_daily.num * PlanningWindow + mean_daily.num * sdays
                      - inv_bop * mean_daily.den, mean_daily.den))

\* lines 51-55
OrderQty(mean_daily, inv_bop, sdays, cap) ==
    LET demand_horizon == mean_daily.num * PlanningWindow
        safety == mean_daily.num * sdays
        order_qty == Max(0, IntTrunc(demand_horizon + safety - inv_bop * mean_daily.den,
                                     mean_daily.den))
    IN  IF cap # 0 /\ cap > 0 THEN Min(order_qty, cap) ELSE order_qty

\* lines 56-63; mean_daily_fcst = round(mean_daily, 2) in hundredths
OutRow(r, sdays, cap) ==
    [sku |-> r.sku,
     location |-> r.location,
     mean_daily_fcst |-> RoundHalfEven(r.mean_daily.num * 100, r.mean_daily.den),
     inv_bop |-> r.inv_bop,
     safety_days |-> sdays,
     order_qty |-> OrderQty(r.mean_daily, r.inv_bop, sdays, cap)]

\* SortValuesKey ordering by sku alone
SortValuesSku(rows) ==
    LET Insert(s, r) ==
            LET before == {i \in 1..Len(s) : Ord(s[i].sku) <= Ord(r.sku)}
                k == Cardinality(before)
            IN  SubSeq(s, 1, k) \o <<r>> \o SubSeq(s, k + 1, Len(s))
        F[i \in 0..Len(rows)] == IF i = 0 THEN <<>> ELSE Insert(F[i - 1], rows[i])
    IN  F[Len(rows)]

\* pd.DataFrame(out_rows).sort_values(["sku","location"]).reset_index(drop=True)
SortValuesKey(rows) ==
    LET Insert(s, r) ==
            LET before == {i \in 1..Len(s) : ~KeyLess(Key(r), Key(s[i]))}
                k == Cardinality(before)
            IN  SubSeq(s, 1, k) \o <<r>> \o SubSeq(s, k + 1, Len(s))
        F[i \in 0..Len(rows)] == IF i = 0 THEN <<>> ELSE Insert(F[i - 1], rows[i])
    IN  F[Len(rows)]

(* ------------------------------ inputs -------------------------------- *)
Skus == {"A", "B"}
Locations == {"S1", "S2"}
Dates == {1, 2}
InvBops == {-20, 50}
Units == {10, 20}
Lifts == {-6, 0, 1, 2}
SafetyDays == {0, 7}
MaxOrders == {0, 100}

SeqsUpTo(S, n) == UNION {[1..k -> S] : k \in 0..n}

SalesRows(skus, locs, dates, invs) ==
    [sku : skus, location : locs, date : dates, inv_bop : invs]
ForecastRows(skus, locs, dates, units) ==
    [sku : skus, location : locs, date : dates, forecast_units : units]

\* one forecast row per day for one pair: day i forecasts units[i]
DailyForecast(sku, loc, units) ==
    [i \in 1..Len(units) |->
        [sku |-> sku, location |-> loc, date |-> i, forecast_units |-> units[i]]]

Table(cols, rows) == [columns |-> cols, rows |-> rows]

DropColumn(df, c) ==
    [columns |-> df.columns \ {c},
     rows |-> [i \in 1..Len(df.rows) |->
                  [f \in (DOMAIN df.rows[i]) \ {c} |-> df.rows[i][f]]]]

InitCall ==
    /\ pc = "call"
    /\ adj = <<>>
    /\ reco = <<>>
    /\ raised_line = 0

\* one sku-location pair: the order-quantity arithmetic and the latest inventory
InitArith ==
    /\ sales_df \in {Table(SalesColumns, s) :
            s \in SeqsUpTo(SalesRows({"A"}, {"S1"}, Dates, InvBops), MaxRows)}
    /\ forecast_df \in {Table(ForecastColumns, DailyForecast("A", "S1", u)) :
            u \in SeqsUpTo(Units, MaxRows)}
    /\ promo_lift \in Lifts
    /\ safety_days \in SafetyDays
    /\ max_order \in MaxOrders
    /\ sku_filter = {}
    /\ store_filter = {}

\* several pairs and dates: grouping, latest row per group, output order
InitGroups ==
    /\ sales_df \in {Table(SalesColumns, s) :
            s \in SeqsUpTo(SalesRows(Skus, Locations, Dates, {50}), MaxSalesRows)}
    /\ forecast_df \in {Table(ForecastColumns, s) :
            s \in SeqsUpTo(ForecastRows({"A"}, {"S1"}, {1}, {10}), 1)}
    /\ promo_lift = 0
    /\ safety_days = 0
    /\ max_order = 0
    /\ sku_filter = {}
    /\ store_filter = {}

\* filters and the join of the two tables
InitFilters ==
    /\ sales_df \in {Table(SalesColumns, s) :
            s \in SeqsUpTo(SalesRows(Skus, Locations, {1}, {50}), MaxRows)}
    /\ forecast_df \in {Table(ForecastColumns, s) :
            s \in SeqsUpTo(ForecastRows(Skus, Locations, {1}, {10}), MaxRows)}
    /\ promo_lift = 0
    /\ safety_days = 0
    /\ max_order = 0
    /\ sku_filter \in {{}, {"A"}, {"B"}}
    /\ store_filter \in {{}, {"S1"}}

\* tables with at most one column missing each
InitSchema ==
    /\ \E s \in SeqsUpTo(SalesRows({"A"}, {"S1"}, {1}, {50}), 1) :
       \E miss \in SUBSET SalesColumns :
          /\ Cardinality(miss) <= 1
          /\ sales_df = IF miss = {} THEN Table(SalesColumns, s)
                        ELSE DropColumn(Table(SalesColumns, s), CHOOSE c \in miss : TRUE)
    /\ \E s \in SeqsUpTo(ForecastRows({"A"}, {"S1"}, {1}, {10}), 1) :
       \E miss \in SUBSET ForecastColumns :
          /\ Cardinality(miss) <= 1
          /\ forecast_df = IF miss = {} THEN Table(ForecastColumns, s)
                           ELSE DropColumn(Table(ForecastColumns, s), CHOOSE c \in miss : TRUE)
    /\ promo_lift = 0
    /\ safety_days = 0
    /\ max_order = 0
    /\ sku_filter \in {{}, {"A"}}
    /\ store_filter \in {{}, {"S1"}}

Init ==
    /\ InitCall
    /\ (InitArith \/ InitGroups \/ InitFilters \/ InitSchema)

(* ------------------------------ the call ------------------------------ *)
\* Raise with the error swallowed: the call returns empty tables
RaiseSwallowed(line) ==
    /\ pc' = "returned"
    /\ raised_line' = line
    /\ adj' = <<>>
    /\ reco' = <<>>

\* a KeyError leaves the function: nothing is returned
Raise(line) ==
    /\ pc' = "raised"
    /\ raised_line' = line
    /\ UNCHANGED <<adj, reco>>

ComputeRecommendations ==
    /\ pc = "call"
    /\ UNCHANGED inputs
    /\ LET err == FirstKeyError(sales_df, forecast_df, sku_filter, store_filter)
       IN  IF err # 0 THEN Raise(err)
           ELSE
             LET sales == ApplyFilters(sales_df, sku_filter, store_filter)
                 fore == ApplyFilters(forecast_df, sku_filter, store_filter)
                 adjRows == AdjustForecast(fore.rows, promo_lift)
             IN  \E sorted \in SortValuesDate(sales.rows) :
                   LET latest == GroupTail(sorted)
                       merged == MergeLeft(latest, adjRows)
                       out_rows == [i \in 1..Len(merged) |->
                                       OutRow(merged[i], safety_days, max_order)]
                   IN  IF out_rows = <<>> THEN Raise(64)
                       ELSE /\ pc' = "returned"
                            /\ adj' = adjRows
                            /\ reco' = SortValuesKey(out_rows)
                            /\ raised_line' = 0

Next == ComputeRecommendations

Spec == Init /\ [][Next]_vars

(* ============================== claims ================================ *)
Returned == pc = "returned"

\* a row of an input table passes the filters that are active
Passes(r) ==
    /\ (sku_filter = {} \/ r.sku \in sku_filter)
    /\ (store_filter = {} \/ r.location \in store_filter)

SalesOf(k) ==
    {i \in 1..Len(sales_df.rows) : Passes(sales_df.rows[i]) /\ Key(sales_df.rows[i]) = k}
ForecastOf(k) ==
    {i \in 1..Len(forecast_df.rows) :
        Passes(forecast_df.rows[i]) /\ Key(forecast_df.rows[i]) = k}

RECURSIVE SumAdjusted(_)
SumAdjusted(I) ==
    IF I = {} THEN 0
    ELSE LET i == CHOOSE x \in I : TRUE
         IN  RoundHalfEven(forecast_df.rows[i].forecast_units * (4 + promo_lift), 4)
               + SumAdjusted(I \ {i})

\* max(0, truncate(mean_daily * 14 + mean_daily * safety_days - inv_bop)) with
\* mean_daily the unrounded mean of the key's adjusted units (0 without forecast)
Uncapped(k, inv) ==
    LET n == Cardinality(ForecastOf(k))
        total == SumAdjusted(ForecastOf(k))
        raw == IF n = 0 THEN -inv
               ELSE IntTrunc(total * 14 + total * safety_days - inv * n, n)
    IN  IF raw < 0 THEN 0 ELSE raw

Expected(k, inv) ==
    IF max_order > 0 /\ Uncapped(k, inv) > max_order THEN max_order ELSE Uncapped(k, inv)

LatestInvBops(k) ==
    {sales_df.rows[i].inv_bop : i \in
        {j \in SalesOf(k) : \A l \in SalesOf(k) :
              sales_df.rows[l].date <= sales_df.rows[j].date}}

Scenario1Tables ==
    /\ sales_df = Table(SalesColumns,
                        <<[sku |-> "A", location |-> "S1", date |-> 1, inv_bop |-> 50]>>)
    /\ forecast_df = Table(ForecastColumns, DailyForecast("A", "S1", <<10, 20>>))
    /\ safety_days = 0
    /\ sku_filter = {}
    /\ store_filter = {}

\* C1: every returned row's order_qty is max(0, truncate(mean_daily * 14 +
\* mean_daily * safety_days - inv_bop)), capped by max_order when max_order > 0,
\* with mean_daily the unrounded mean of the key's adjusted forecast units and
\* inv_bop an inventory of the key's latest date; sales (A,S1,50) with forecasts
\* 10 and 20 gives 160 at lift 0 and 265 at lift 0.5 (no safety days, no cap).
C1_OrderQtyFormula ==
    Returned =>
        /\ \A i \in 1..Len(reco) :
              /\ reco[i].inv_bop \in LatestInvBops(Key(reco[i]))
              /\ reco[i].order_qty = Expected(Key(reco[i]), reco[i].inv_bop)
        /\ (Scenario1Tables /\ max_order = 0 /\ promo_lift = 0
              => Len(reco) = 1 /\ reco[1].order_qty = 160)
        /\ (Scenario1Tables /\ max_order = 0 /\ promo_lift = 2
              => Len(reco) = 1 /\ reco[1].order_qty = 265)

C1_Witness ==
    /\ Returned /\ Scenario1Tables /\ max_order = 0 /\ promo_lift = 2
    /\ reco[1].order_qty = 265 /\ reco[1].mean_daily_fcst = 2250

\* C2 as stated: every returned row has order_qty >= 0 and inv_bop >= 0.
C2_NonNegativeAsClaimed ==
    Returned => \A i \in 1..Len(reco) : reco[i].order_qty >= 0 /\ reco[i].inv_bop >= 0

\* C2 amended: every returned row has order_qty >= 0, and its inv_bop is
\* non-negative whenever the key's input inventory records are non-negative
\* (a negative input inventory is copied to the output, not clamped).
C2_NonNegative ==
    Returned =>
        \A i \in 1..Len(reco) :
            /\ reco[i].order_qty >= 0
            /\ (\A j \in SalesOf(Key(reco[i])) : sales_df.rows[j].inv_bop >= 0)
                  => reco[i].inv_bop >= 0
            /\ (\A j \in SalesOf(Key(reco[i])) : sales_df.rows[j].inv_bop < 0)
                  => reco[i].inv_bop < 0

\* the clamp acts: inventory exceeds the demand and the order is 0
C2_Witness ==
    /\ Returned
    /\ \E i \in 1..Len(reco) :
          /\ reco[i].inv_bop = 50 /\ reco[i].mean_daily_fcst < 0
          /\ reco[i].order_qty = 0

\* C3: if max_order > 0 every returned row has order_qty <= max_order; if
\* max_order is 0 no cap is applied and order_qty is the uncapped quantity.
C3_CapRespected ==
    Returned =>
        \A i \in 1..Len(reco) :
            /\ max_order > 0 => reco[i].order_qty <= max_order
            /\ max_order = 0 => reco[i].order_qty = Uncapped(Key(reco[i]), reco[i].inv_bop)

\* the cap acts: the uncapped quantity exceeds max_order
C3_Witness ==
    /\ Returned /\ max_order = 100
    /\ \E i \in 1..Len(reco) :
          /\ Uncapped(Key(reco[i]), reco[i].inv_bop) > 100
          /\ reco[i].order_qty = 100

AllColumns ==
    /\ SalesColumns \subseteq sales_df.columns
    /\ ForecastColumns \subseteq forecast_df.columns

FilteredSales == SelectSeq(sales_df.rows, Passes)
FilteredForecast == SelectSeq(forecast_df.rows, Passes)

\* C4 as stated: with an empty (or filtered-to-empty) sales table the call
\* raises nothing and returns an empty recommendation table.
C4_EmptySalesReturnsEmpty ==
    (pc # "call" /\ AllColumns /\ FilteredSales = <<>>) => (Returned /\ reco = <<>>)

\* C5: no row of either output has a sku outside a non-empty sku_filter or a
\* location outside a non-empty store_filter, and nothing else is removed:
\* every forecast row that passes the active filters is in the adjusted
\* forecast and every sales key that passes them has a recommendation row.
C5_FilterCorrectness ==
    Returned =>
        /\ \A i \in 1..Len(adj) : Passes(adj[i])
        /\ \A i \in 1..Len(reco) : Passes(reco[i])
        /\ Len(adj) = Cardinality({i \in 1..Len(forecast_df.rows) : Passes(forecast_df.rows[i])})
        /\ \A i \in 1..Len(sales_df.rows) :
              Passes(sales_df.rows[i])
                 => \E j \in 1..Len(reco) : Key(reco[j]) = Key(sales_df.rows[i])

\* both filters active: one removes a sales row, the other a forecast row
C5_Witness ==
    /\ Returned /\ sku_filter # {} /\ store_filter # {}
    /\ Len(reco) >= 1 /\ Len(adj) >= 1
    /\ \E i \in 1..Len(sales_df.rows) : sales_df.rows[i].sku \notin sku_filter
    /\ \E i \in 1..Len(forecast_df.rows) :
          /\ forecast_df.rows[i].sku \in sku_filter
          /\ forecast_df.rows[i].location \notin store_filter

\* C6: the recommendation table is strictly ascending by (sku, location),
\* hence sorted and without two rows of the same key.
C6_SortedUnique ==
    Returned =>
        \A i \in 1..Len(reco) : \A j \in 1..Len(reco) :
            i < j => KeyLess(Key(reco[i]), Key(reco[j]))

\* unsorted input with two records of one key and a second key
C6_Witness ==
    /\ Returned /\ Len(reco) = 2 /\ Len(sales_df.rows) = 3
    /\ Key(sales_df.rows[1]) = <<"A", "S2">>
    /\ Key(sales_df.rows[2]) = <<"A", "S1">>
    /\ Key(sales_df.rows[3]) = <<"A", "S2">>
    /\ Key(reco[1]) = <<"A", "S1">>

\* C7 as stated: a call with any required column missing returns no table.
C7_MissingColumnAsClaimed ==
    Returned => AllColumns

\* C7 amended: a call with a required column missing, other than the forecast
\* table's date column, raises and returns no table.
C7_MissingColumnRaises ==
    (/\ pc # "call"
     /\ \/ ~(SalesColumns \subseteq sales_df.columns)
        \/ ~((ForecastColumns \ {"date"}) \subseteq forecast_df.columns))
       => (pc = "raised" /\ raised_line # 0 /\ adj = <<>> /\ reco = <<>>)

\* a sales table without inv_bop, filters active: raised at the column selection
C7_Witness ==
    /\ pc = "raised" /\ raised_line = 38
    /\ "inv_bop" \notin sales_df.columns
    /\ Len(sales_df.rows) = 1
    /\ sku_filter # {} /\ store_filter # {}

\* the records of key k that carry the key's latest date
LatestOf(k) ==
    {j \in SalesOf(k) : \A l \in SalesOf(k) : sales_df.rows[l].date <= sales_df.rows[j].date}

LowestPosition(I) == CHOOSE i \in I : \A j \in I : i <= j

\* C8 as stated: among the records of the latest date the one with the lowest
\* original row position supplies inv_bop.
C8_LowestPositionAsClaimed ==
    Returned =>
        \A i \in 1..Len(reco) :
            reco[i].inv_bop = sales_df.rows[LowestPosition(LatestOf(Key(reco[i])))].inv_bop

\* C8 amended: inv_bop is that of a record of the key carrying the key's
\* latest date; among several such records any one may supply it.
C8_LatestInventory ==
    Returned =>
        \A i \in 1..Len(reco) :
            \E j \in LatestOf(Key(reco[i])) :
                /\ reco[i].inv_bop = sales_df.rows[j].inv_bop
                /\ \A l \in SalesOf(Key(reco[i])) :
                      sales_df.rows[l].date <= sales_df.rows[j].date

\* the later record comes first in the input and still supplies inv_bop
C8_Witness ==
    /\ Returned /\ Len(sales_df.rows) = 2
    /\ sales_df.rows[1].date = 2 /\ sales_df.rows[1].inv_bop = -20
    /\ sales_df.rows[2].date = 1 /\ sales_df.rows[2].inv_bop = 50
    /\ Len(reco) = 1 /\ reco[1].inv_bop = -20

\* C9: the keys of the recommendation table are exactly the keys of the
\* filtered sales table; a key without forecast rows gets mean_daily_fcst 0,
\* and a non-empty filtered sales table never makes the call raise.
C9_KeysFromSales ==
    /\ Returned =>
          /\ {Key(reco[i]) : i \in 1..Len(reco)}
                = {Key(FilteredSales[i]) : i \in 1..Len(FilteredSales)}
          /\ \A i \in 1..Len(reco) :
                ForecastOf(Key(reco[i])) = {} => reco[i].mean_daily_fcst = 0
    /\ (pc # "call" /\ AllColumns /\ FilteredSales # <<>>) => Returned

\* a sales key without forecast, and a forecast key without sales
C9_Witness ==
    /\ Returned
    /\ \E i \in 1..Len(reco) :
          ForecastOf(Key(reco[i])) = {} /\ reco[i].mean_daily_fcst = 0
    /\ \E j \in 1..Len(FilteredForecast) :
          \A i \in 1..Len(reco) : Key(reco[i]) # Key(FilteredForecast[j])

\* C10: the adjusted forecast has the rows of the filtered forecast, in order,
\* equal in every column but forecast_units, which is the integer
\* round(forecast_units * (1 + promo_lift)); it is negative, not clamped, when
\* promo_lift is below -1.
C10_AdjustedForecast ==
    Returned =>
        /\ Len(adj) = Len(FilteredForecast)
        /\ \A i \in 1..Len(adj) :
              /\ DOMAIN adj[i] = DOMAIN FilteredForecast[i]
              /\ \A c \in (DOMAIN adj[i]) \ {"forecast_units"} :
                    adj[i][c] = FilteredForecast[i][c]
              /\ adj[i].forecast_units
                    = RoundHalfEven(FilteredForecast[i].forecast_units * (4 + promo_lift), 4)
              /\ (promo_lift < -4 /\ FilteredForecast[i].forecast_units > 0)
                    => adj[i].forecast_units < 0

\* two forecast days under a lift of -1.5: both adjusted values are negative
C10_Witness ==
    /\ Returned /\ promo_lift = -6
    /\ Len(adj) = 2 /\ adj[1].forecast_units = -5 /\ adj[2].forecast_units = -10
    /\ adj[1].date = 1 /\ adj[2].date = 2

====
